---- MODULE Spec2Model ----
(***************************************************************************)
(* Hook event dispatch of claude-tools.                                    *)
(*                                                                         *)
(* Three dispatch implementations live in the repository and are modelled  *)
(* side by side:                                                           *)
(*   engine  HooksManager.executeHooks driven by the example script's main *)
(*   cli     runHooksFile of cli.ts, which calls the handler in-process    *)
(*   spawn   runHooksFile of the earlier cli revision, which spawns        *)
(*           lib/hooks-runner.ts in a deno subprocess                      *)
(* JSON values are abstracted to their kind ("absent", "string", "number", *)
(* "record") except where the schemas name literal strings.                *)
(* SpecPerm runs the permission flag builder of the spawning revision on   *)
(* its own, SpecReg runs HooksManager.use on its own, and FairSpec is Spec *)
(* under weak fairness of the program's steps.  SpecConc interleaves two   *)
(* calls of executeHooks on one registration, and SpecMerge runs the init  *)
(* command of cli.ts on a settings file.                                   *)
(***************************************************************************)
EXTENDS Integers, Sequences, FiniteSets, TLC

\* Largest number of plugins registered with one HooksManager.
MaxPlugins == 2

----------------------------------------------------------------------------
\* Event types and payload schemas (lib/schemas/hooks.ts)

EventTypes ==
  {"PreToolUse", "PostToolUse", "Notification", "UserPromptSubmit",
   "Stop", "SubagentStop", "PreCompact", "SessionStart"}

\* Event names a caller can pass on the command line: the eight known ones,
\* two outside the enumeration ("Load" makes "on" + event name the lifecycle
\* callback onLoad), and "" for a missing argument.
EventArgs == EventTypes \cup {"Bogus", "Load", ""}

TopFields ==
  {"tool_name", "tool_input", "tool_output", "type", "message", "prompt",
   "reason", "subagent_type", "context_size", "context"}

CtxFields == {"session_id", "user_id", "working_directory"}

Fields == TopFields \cup CtxFields

NotificationTypes == {"permission_request", "idle", "error"}

StopReasons == {"completed", "error", "interrupted"}

\* Kinds that are not JSON strings; every other kind is a string value.
NonStrings == {"absent", "number", "record"}

IsString(v) == v \notin NonStrings

\* z.string(), z.number(), z.record(z.unknown()), z.unknown(), z.enum([...])
\* and .optional() as acceptance tests on a value kind.
Accepts(type, v) ==
  CASE type = "string"    -> IsString(v)
    [] type = "optstring" -> v = "absent" \/ IsString(v)
    [] type = "number"    -> v = "number"
    [] type = "record"    -> v = "record"
    [] type = "optrecord" -> v \in {"absent", "record"}
    [] type = "unknown"   -> TRUE
    [] type = "notifType" -> v \in NotificationTypes
    [] type = "reason"    -> v \in StopReasons
    [] type = "action"    -> v \in {"continue", "block", "modify"}
    [] OTHER              -> FALSE

ContextSchema ==
  [session_id |-> "string", user_id |-> "optstring",
   working_directory |-> "string"]

PreToolUsePayloadSchema ==
  [tool_name |-> "string", tool_input |-> "record"]

PostToolUsePayloadSchema ==
  [tool_name |-> "string", tool_input |-> "record", tool_output |-> "unknown"]

NotificationPayloadSchema == [type |-> "notifType", message |-> "string"]

UserPromptSubmitPayloadSchema == [prompt |-> "string"]

StopPayloadSchema == [reason |-> "reason"]

SubagentStopPayloadSchema == [subagent_type |-> "string", reason |-> "reason"]

PreCompactPayloadSchema == [context_size |-> "number"]

\* SessionStart has no field besides context; the empty record is written as
\* the empty function.
SessionStartPayloadSchema == [f \in {} |-> "unknown"]

\* The switch of executeHooks: the schema parsed for each event type.
SchemaOf(e) ==
  CASE e = "PreToolUse"       -> PreToolUsePayloadSchema
    [] e = "PostToolUse"      -> PostToolUsePayloadSchema
    [] e = "Notification"     -> NotificationPayloadSchema
    [] e = "UserPromptSubmit" -> UserPromptSubmitPayloadSchema
    [] e = "Stop"             -> StopPayloadSchema
    [] e = "SubagentStop"     -> SubagentStopPayloadSchema
    [] e = "PreCompact"       -> PreCompactPayloadSchema
    [] e = "SessionStart"     -> SessionStartPayloadSchema

\* ContextSchema applied to the context member of a payload.
ContextConforms(p) ==
  /\ p["context"] = "record"
  /\ \A f \in DOMAIN ContextSchema : Accepts(ContextSchema[f], p[f])

\* Schema.parse(payload) succeeds.
Conforms(e, p) ==
  /\ \A f \in DOMAIN SchemaOf(e) : Accepts(SchemaOf(e)[f], p[f])
  /\ ContextConforms(p)

\* The value Schema.parse returns: z.object drops the keys the schema does
\* not name.
ParsePayload(e, p) ==
  [f \in Fields |->
     IF f \in DOMAIN SchemaOf(e) \cup DOMAIN ContextSchema \cup {"context"}
     THEN p[f] ELSE "absent"]

\* A payload carrying every field of every schema.
FullPayload ==
  [f \in Fields |->
     CASE f \in {"tool_input", "tool_output", "context"} -> "record"
       [] f = "context_size" -> "number"
       [] f = "type"         -> "idle"
       [] f = "reason"       -> "completed"
       [] OTHER              -> "string"]

\* {} : what every entry point uses when no payload is given or JSON.parse
\* fails.
EmptyPayload == [f \in Fields |-> "absent"]

Drop(p, f) == [p EXCEPT ![f] = "absent"]

\* Dropping context drops its members with it.
DropContext(p) ==
  [f \in Fields |-> IF f \in CtxFields \cup {"context"} THEN "absent" ELSE p[f]]

\* The smallest payload an event type accepts: the fields of its schema and
\* a context without the optional user_id.
MinimalPayload(e) ==
  [f \in Fields |->
     IF f \in DOMAIN SchemaOf(e) \cup {"context", "session_id", "working_directory"}
     THEN FullPayload[f] ELSE "absent"]

\* The payloads dispatched in the model: for each event type its minimal
\* payload and that payload with one field of the schema missing, payloads
\* with context or one of its required members missing, payloads with a
\* wrongly typed field, and the empty payload.
Payloads ==
  {MinimalPayload(e) : e \in EventTypes}
  \cup UNION {{Drop(MinimalPayload(e), f) : f \in DOMAIN SchemaOf(e)} :
               e \in EventTypes}
  \cup {EmptyPayload,
        DropContext(MinimalPayload("PreToolUse")),
        Drop(MinimalPayload("SessionStart"), "session_id"),
        Drop(MinimalPayload("Stop"), "working_directory"),
        [MinimalPayload("Stop") EXCEPT !["reason"] = "string"],
        [MinimalPayload("PreCompact") EXCEPT !["context_size"] = "string"]}

\* The payload text a run receives (the --payload option, the runner's
\* argument, or standard input): missing, not JSON, or the JSON of a payload.
PayloadArgs ==
  {[given |-> FALSE, json |-> FALSE, value |-> EmptyPayload],
   [given |-> TRUE, json |-> FALSE, value |-> EmptyPayload]}
  \cup {[given |-> TRUE, json |-> TRUE, value |-> p] : p \in Payloads}

\* let payload = {}; if (text) { try { payload = JSON.parse(text) } catch {} }
ParsedPayload(arg) ==
  IF arg.given /\ arg.json THEN arg.value ELSE EmptyPayload

----------------------------------------------------------------------------
\* Hook responses (HookResponseSchema)

RespFields == {"action", "message", "modified_input", "context", "extra"}

HookResponseSchema ==
  [action |-> "action", message |-> "optstring",
   modified_input |-> "optrecord", context |-> "optrecord"]

Resp(a, m) ==
  [action |-> a, message |-> m, modified_input |-> "absent",
   context |-> "absent", extra |-> "absent"]

\* HookResponseSchema.parse(result) succeeds.
ResponseValid(v) ==
  /\ Accepts(HookResponseSchema.action, v.action)
  /\ Accepts(HookResponseSchema.message, v.message)
  /\ Accepts(HookResponseSchema.modified_input, v.modified_input)
  /\ Accepts(HookResponseSchema.context, v.context)

\* The value HookResponseSchema.parse returns: unknown keys are dropped.
ParseResponse(v) == [v EXCEPT !.extra = "absent"]

\* Values a handler may return (truthy objects).
Returns ==
  {Resp("continue", "absent"), Resp("continue", "m1"),
   [Resp("continue", "m2") EXCEPT !.extra = "present"],
   Resp("block", "nope"),
   [Resp("modify", "absent") EXCEPT !.modified_input = "record"],
   Resp("absent", "absent"),
   Resp("block", "number")}

\* What a handler invocation can do: throw, return a falsy value
\* (undefined, null), or return a value.
Outcomes ==
  {[kind |-> "throws", val |-> Resp("absent", "absent")],
   [kind |-> "falsy", val |-> Resp("absent", "absent")]}
  \cup {[kind |-> "value", val |-> v] : v \in Returns}

----------------------------------------------------------------------------
\* Plugins (HooksPlugin) and the responses the engine synthesises

\* Names given to plugins in registration order.
Names ==
  <<"inline-hooks", "file-validator", "desktop-notifications",
    "session-logger">>

\* The sets of events a plugin of the model binds handlers to.
Bindings == {{"PreToolUse"}, EventTypes}

\* A plugin: its name, whether it defines onLoad, and the events it has an
\* on<Event> callback for.
PluginShapes == [onLoad : BOOLEAN, bound : Bindings]

MkPlugin(n, s) == [name |-> n, onLoad |-> s.onLoad, bound |-> s.bound]

\* executeHooks, validation catch
InvalidPayloadResponse == Resp("continue", "Invalid payload")

\* A per-plugin catch that fails closed.
PluginErrorResponse_Block == Resp("block", "Plugin error")

\* executeHooks, per-plugin catch
PluginErrorResponse == Resp("continue", "Plugin error")

\* executeHooks, response validation catch
InvalidResponseResponse == Resp("continue", "Plugin returned invalid response")

\* The literal { action: "continue" } used as a default by every entry point.
DefaultResponse == Resp("continue", "absent")

\* A registration that puts the new plugin first (unshift instead of push).
PushPlugin_Front(ps, p) == <<p>> \o ps

\* this.plugins.push(plugin)
PushPlugin(ps, p) == Append(ps, p)

\* for (const plugin of this.plugins): the plugin visited at step i.
PluginAt(ps, i) == ps[i]

\* plugin.on<Event>?.(...) of the second switch: is there a callback to call.
HandlerBound(plugin, e) == e \in plugin.bound

\* The payload check of executeHooks: the switch reaches a schema and its
\* parse does not throw.
PayloadAccepted(e, p) == e \in EventTypes /\ Conforms(e, p)

\* What the body of the loop appends to results for a handler outcome:
\* nothing for a falsy result, the parsed response when it validates, the
\* invalid-response notice when it does not, the plugin-error notice when
\* the handler threw.
Pushed(o) ==
  CASE o.kind = "throws" -> <<PluginErrorResponse>>
    [] o.kind = "falsy"  -> <<>>
    [] OTHER -> IF ResponseValid(o.val) THEN <<ParseResponse(o.val)>>
                ELSE <<InvalidResponseResponse>>

\* A loop without the break.
StopsProcessing_Never(o) == FALSE

\* if (validatedResult.action === "block") break
StopsProcessing(o) ==
  /\ o.kind = "value"
  /\ ResponseValid(o.val)
  /\ ParseResponse(o.val).action = "block"

\* results.find((r) => r.action === "block")
BlockingIndexes(rs) == {i \in 1..Len(rs) : rs[i].action = "block"}

Min(S) == CHOOSE x \in S : \A y \in S : x <= y

\* An aggregation that takes the first result instead of the last.
FinalResult_FirstWins(rs) ==
  IF BlockingIndexes(rs) # {} THEN rs[Min(BlockingIndexes(rs))]
  ELSE IF Len(rs) > 0 THEN rs[1]
  ELSE DefaultResponse

\* blockingResult || results[results.length - 1] || { action: "continue" }
FinalResult(rs) ==
  IF BlockingIndexes(rs) # {} THEN rs[Min(BlockingIndexes(rs))]
  ELSE IF Len(rs) > 0 THEN rs[Len(rs)]
  ELSE DefaultResponse

----------------------------------------------------------------------------
\* Permission descriptors and their deno flags

\* Keys a descriptor lists under allow or deny, at most.
MaxKeys == 2

\* Times the flags of one descriptor are built.
MaxResolves == 2

\* The capabilities the flag builder knows, in the order it handles them.
Caps == <<"read", "write", "net", "env", "run", "sys">>

CapSet == {Caps[i] : i \in 1..Len(Caps)}

\* Keys a descriptor can carry: the capabilities and one the builder does
\* not know.
CapKeys == CapSet \cup {"ffi"}

\* The value under a capability key: absent, a boolean, or a list.
AbsentValue == [kind |-> "absent", flag |-> FALSE, items |-> <<>>]

BoolValue(b) == [kind |-> "bool", flag |-> b, items |-> <<>>]

ListValue(l) == [kind |-> "list", flag |-> FALSE, items |-> l]

\* allow.<cap>: z.union([z.array(z.string()), z.boolean()]).optional()
AllowValues ==
  {BoolValue(TRUE), BoolValue(FALSE), ListValue(<<>>), ListValue(<<".">>),
   ListValue(<<"/tmp", ".">>)}

\* deny.<cap>: z.array(z.string()).optional()
DenyValues == {ListValue(<<"/usr", "/etc">>)}

\* An object literal as written: its keys in their order, each with a value.
Entries(ks, vs) == [i \in 1..Len(ks) |-> [key |-> ks[i], val |-> vs[i]]]

\* No key is written twice.
DistinctKeys(ks) == \A i, j \in 1..Len(ks) : ks[i] = ks[j] => i = j

\* The deny objects of the model: none, and one key with a list.
DenyObjects ==
  {<<>>} \cup {<<[key |-> c, val |-> v]>> : c \in {"write", "net"}, v \in DenyValues}

\* A permission descriptor.  An absent allow or deny is the empty object:
\* the builder treats the two alike.
Descriptor(a, d) == [allow |-> a, deny |-> d]

\* hooksPlugin.permissions || {}
NoPermissions == Descriptor(<<>>, <<>>)

\* permissions.allow.<k>
Lookup(obj, k) ==
  IF \E i \in 1..Len(obj) : obj[i].key = k
  THEN obj[CHOOSE i \in 1..Len(obj) : obj[i].key = k].val
  ELSE AbsentValue

\* `--allow-<c>=<r>`
ScopedFlag(c, r) == [flag |-> "allow", cap |-> c, scoped |-> TRUE, scope |-> r]

\* "--allow-<c>"
AllFlag(c) == [flag |-> "allow", cap |-> c, scoped |-> FALSE, scope |-> ""]

\* if (permissions.allow.<c>) { if (Array.isArray(...)) { for ... push }
\*                              else if (... === true) { push } }
\* An empty list is truthy and pushes nothing.
FlagsOf(c, v) ==
  IF v.kind = "absent" \/ (v.kind = "bool" /\ ~v.flag) THEN <<>>
  ELSE IF v.kind = "list"
  THEN [i \in 1..Len(v.items) |-> ScopedFlag(c, v.items[i])]
  ELSE IF v.flag = TRUE THEN <<AllFlag(c)>>
  ELSE <<>>

AllowFlags(perm, c) == FlagsOf(c, Lookup(perm.allow, c))

RECURSIVE EntryFlags(_, _)
EntryFlags(obj, n) ==
  IF n = 0 THEN <<>>
  ELSE EntryFlags(obj, n - 1) \o
       (IF obj[n].key \in CapSet THEN FlagsOf(obj[n].key, obj[n].val) ELSE <<>>)

\* A builder that walks the keys of allow in the order they are written.
PermissionFlags_KeyOrder(perm) == EntryFlags(perm.allow, Len(perm.allow))

\* The flags runHooksFile pushes between "run" and the runner path: the six
\* blocks under if (permissions.allow), in their order.  permissions.deny is
\* not read.
PermissionFlags(perm) ==
  AllowFlags(perm, "read") \o AllowFlags(perm, "write") \o
  AllowFlags(perm, "net") \o AllowFlags(perm, "env") \o
  AllowFlags(perm, "run") \o AllowFlags(perm, "sys")

\* fileValidationPlugin.permissions of the example script
ExamplePermissions ==
  Descriptor(<<[key |-> "read", val |-> ListValue(<<".">>)],
               [key |-> "write", val |-> ListValue(<<".">>)],
               [key |-> "env", val |-> ListValue(<<"PWD", "HOME">>)]>>,
             <<[key |-> "write", val |-> ListValue(<<"/etc", "/usr", "/System">>)]>>)

\* A descriptor that opens the file system and the network.
OpenPermissions ==
  Descriptor(<<[key |-> "net", val |-> BoolValue(TRUE)],
               [key |-> "read", val |-> BoolValue(TRUE)]>>, <<>>)

\* The descriptors of the hooks files run in the model.
RunDescriptors == {NoPermissions, ExamplePermissions, OpenPermissions}

\* #!/usr/bin/env deno run --allow-read --allow-write --allow-env --allow-net
CliShebang ==
  {AllFlag("read"), AllFlag("write"), AllFlag("env"), AllFlag("net")}

\* #!/usr/bin/env deno run --allow-read --allow-write --allow-net --allow-env
ExampleShebang ==
  {AllFlag("read"), AllFlag("write"), AllFlag("net"), AllFlag("env")}

\* new Deno.Command("deno", { args }): the permissions of the subprocess are
\* the flags it is started with.
GrantedBy(flags) == {flags[i] : i \in 1..Len(flags)}

\* await import(hooksPath) inside the subprocess reads the hooks file: it
\* cannot succeed without a read permission.
CanImport(g) == \E f \in g : f.flag = "allow" /\ f.cap = "read"

\* Exit codes the other way round.
ExitCode_Swapped(failed) == IF failed THEN 0 ELSE 1

\* The exit code of the process: Deno.exit(1) on the error paths, 0 when the
\* program runs to its end.
ExitCode(failed) == IF failed THEN 1 ELSE 0

----------------------------------------------------------------------------
\* Concurrent calls of executeHooks on one HooksManager

\* The two calls in progress at the same time.
RunIds == {1, 2}

\* The locals of a call of executeHooks that has not started: its position,
\* its arguments, the position of its plugin loop, what its awaits resolved
\* to so far (plugin number and outcome), and the array it returned.
IdleRun ==
  [pc |-> "idle", event |-> "", payload |-> EmptyPayload, idx |-> 1,
   outs |-> <<>>, returned |-> <<>>]

\* One results array for all calls (a field of the manager, not a local).
ResultsOf_Shared(r) == Min(RunIds)

\* const results: HookResponse[] = [] : every call has an array of its own.
ResultsOf(r) == r

\* The events, payloads and handler outcomes of the concurrent calls.
ConcEvents == {"PreToolUse", "Stop"}

ConcPayloads == {MinimalPayload("PreToolUse"), MinimalPayload("Stop")}

ConcOutcomes ==
  {[kind |-> "throws", val |-> Resp("absent", "absent")],
   [kind |-> "falsy", val |-> Resp("absent", "absent")],
   [kind |-> "value", val |-> Resp("continue", "m1")],
   [kind |-> "value", val |-> Resp("block", "nope")],
   [kind |-> "value", val |-> Resp("absent", "absent")]}

\* The registrations the concurrent calls run on: two plugins of any shape.
ConcRegistrations ==
  {<<MkPlugin(Names[1], s1), MkPlugin(Names[2], s2)>> :
     s1 \in PluginShapes, s2 \in PluginShapes}

\* The run after it finished with plugin number i: it returns results when
\* the loop broke or no plugin is left, and goes to the next plugin
\* otherwise.
ConcAfter(run, i, stop, ps, rs) ==
  IF stop THEN [run EXCEPT !.pc = "returned", !.returned = rs]
  ELSE IF i >= Len(ps)
  THEN [run EXCEPT !.pc = "returned", !.returned = rs, !.idx = i + 1]
  ELSE [run EXCEPT !.pc = "load", !.idx = i + 1]

----------------------------------------------------------------------------
\* Settings documents (init)

\* An object without keys.
EmptyObject == [k \in {} |-> "absent"]

\* let existingSettings = {}
NoSettings == [other |-> EmptyObject, hasHooks |-> FALSE, hooks |-> EmptyObject]

\* Runs of init on one settings file.
MaxInits == 2

\* Entries an existing document lists under PreToolUse, at most.
MaxEntries == 2

\* Strings are sequences of pieces cut so that "claude-hooks", "/" and "\\"
\* are pieces of their own.

\* s.startsWith("claude-hooks")
StartsWithClaudeHooks(str) == Len(str) >= 1 /\ str[1] = "claude-hooks"

\* s.includes("/claude-hooks")
IncludesSlashClaudeHooks(str) ==
  \E i \in 1..Len(str) - 1 : str[i] = "/" /\ str[i + 1] = "claude-hooks"

\* s.includes('claude-hooks')
IncludesClaudeHooks(str) == \E i \in 1..Len(str) : str[i] = "claude-hooks"

\* A command binding { type, command }; a missing command is the empty
\* string, which the optional chaining treats alike.
Binding(type, command) == [type |-> type, command |-> command]

\* An entry of a hook list: a binding of its own, or a wrapper with an
\* optional matcher and nested bindings under hooks.
TopEntry(command) ==
  [type |-> "command", command |-> command, matcher |-> "absent",
   hasNested |-> FALSE, nested |-> <<>>]

Wrapper(matcher, nested) ==
  [type |-> "absent", command |-> <<>>, matcher |-> matcher,
   hasNested |-> TRUE, nested |-> nested]

\* hook.type === "command" && (hook.command?.startsWith("claude-hooks") ||
\*                              hook.command?.includes("/claude-hooks"))
UsesClaudeHooks(hook) ==
  /\ hook.type = "command"
  /\ (StartsWithClaudeHooks(hook.command) \/ IncludesSlashClaudeHooks(hook.command))

\* The predicate of existingHooks.filter
Preserved(hook) ==
  IF UsesClaudeHooks(hook) THEN FALSE
  ELSE IF hook.hasNested
  THEN ~ \E i \in 1..Len(hook.nested) : UsesClaudeHooks(hook.nested[i])
  ELSE TRUE

\* existing.hooks[hookType] || []
HooksUnder(doc, t) == IF t \in DOMAIN doc.hooks THEN doc.hooks[t] ELSE <<>>

\* smartMergeSettings(existing, newSettings)
smartMergeSettings(existing, newSettings) ==
  IF ~existing.hasHooks THEN newSettings
  ELSE [other |-> existing.other,
        hasHooks |-> TRUE,
        hooks |-> [t \in DOMAIN existing.hooks \cup DOMAIN newSettings.hooks |->
                     IF t \in DOMAIN newSettings.hooks
                     THEN SelectSeq(HooksUnder(existing, t), Preserved)
                            \o newSettings.hooks[t]
                     ELSE existing.hooks[t]]]

\* Where init runs: from a source checkout or as a compiled binary, with the
\* path separator join uses there.
Machine(execPath, scriptDir, sep) ==
  [execPath |-> execPath, scriptDir |-> scriptDir, sep |-> sep]

\* deno on a POSIX system running cli.ts from a checkout
SourceCheckout ==
  Machine(<<"/", "usr", "/", "bin", "/", "deno">>, <<"/", "src">>, "/")

\* The machines of the model: a checkout on POSIX and on Windows, the
\* compiled binary under its own name and under another name that contains
\* it.
Machines ==
  {SourceCheckout,
   Machine(<<"C:", "\\", "deno.exe">>, <<"\\", "C:", "\\", "src">>, "\\"),
   Machine(<<"/", "usr", "/", "bin", "/", "claude-hooks">>, <<"/", "src">>, "/"),
   Machine(<<"/", "opt", "/", "my-", "claude-hooks">>, <<"/", "src">>, "/")}

\* getClaudeHooksPath()
getClaudeHooksPath(m) ==
  IF IncludesClaudeHooks(m.execPath) THEN m.execPath
  ELSE m.scriptDir \o <<m.sep, "bin", m.sep, "claude-hooks">>

\* `${claudeHooksPath} run .claude/${hooksFile} <event>`
GeneratedCommand(binary, e) == binary \o <<" run .claude", "/", "hooks.ts ", e>>

\* Tool events carry a matcher in the generated configuration.
ToolEvents == {"PreToolUse", "PostToolUse"}

\* completeSettings of initHooks
completeSettings(binary) ==
  [other |-> EmptyObject,
   hasHooks |-> TRUE,
   hooks |-> [e \in EventTypes |->
                <<Wrapper(IF e \in ToolEvents THEN ".*" ELSE "absent",
                          <<Binding("command", GeneratedCommand(binary, e))>>)>>]]

\* Entries found in existing documents: a foreign binding, a binding of a
\* claude-hooks on the search path, a wrapper around a foreign binding, and
\* a wrapper around a foreign binding and a claude-hooks binding.
ExistingEntries ==
  {TopEntry(<<"prettier", " --write">>),
   TopEntry(<<"claude-hooks", " run">>),
   Wrapper("Write", <<Binding("command", <<"eslint">>)>>),
   Wrapper("Edit", <<Binding("command", <<"tsc">>),
                     Binding("command", <<"/", "usr", "/", "claude-hooks", " run">>)>>)}

\* The keys besides hooks found in existing documents.
OtherSettings == {EmptyObject, [model |-> "opus"]}

----------------------------------------------------------------------------
\* State

VARIABLES
  plugins,           \* HooksManager.plugins
  regOrder,          \* names in the order use() was called
  path,              \* which entry point runs: "none", "engine", "cli", "spawn"
  pc,                \* position of the run
  hooksPlugin,       \* cli, spawn: the default export of the hooks file,
                     \* <<>> when it is not an object
  eventType,         \* the event argument of the run
  payloadArg,        \* the payload text of the run
  payload,           \* the payload handed to the dispatch
  validatedPayload,  \* executeHooks: the parsed payload
  idx,               \* executeHooks: position of the plugin loop
  results,           \* executeHooks: results
  calls,             \* every callback invocation started, in order
  rets,              \* every handler invocation settled and every onLoad
                     \* that threw, in order, with what was recorded for it
  inflight,          \* names of plugins whose handler is running
  childStdout,       \* spawn: standard output of the runner subprocess
  childCode,         \* spawn: exit code of the runner subprocess, -1 while
                     \* it runs
  stdout,            \* values the program itself writes to standard
                     \* output with console.log
  exitCode,          \* process exit code, -1 while running
  permissions,       \* cli, spawn: hooksPlugin.permissions || {}
  args,              \* spawn: the permission flags in args
  granted,           \* permission flags of the process the handlers run in
  flagRuns,          \* the flag lists built for permissions, one per build
  handlerWrote,      \* a handler wrote to the standard output of its process
  runs,              \* concurrent executeHooks calls: the locals of each call
  heap,              \* concurrent executeHooks calls: the results arrays
  settings,          \* init: the settings document on disk
  written,           \* init: the documents written, one per run of init
  machine            \* init: where the program runs (Deno.execPath(), the
                     \* directory of cli.ts, the path separator of join)

vars ==
  <<plugins, regOrder, path, pc, hooksPlugin, eventType, payloadArg, payload,
    validatedPayload, idx, results, calls, rets, inflight, childStdout,
    childCode, stdout, exitCode, permissions, args, granted, flagRuns,
    handlerWrote, runs, heap, settings, written, machine>>

\* Variables of the concurrent calls only.
concVars == <<runs, heap>>

\* Variables of the init command only.
mergeVars == <<settings, written, machine>>

\* Variables of the permission handling only.
permVars == <<permissions, args, granted, flagRuns>>

\* Variables of the command-line entry points only.
cliVars == <<hooksPlugin, childStdout, childCode>>

\* Variables of HooksManager only.
engineVars == <<plugins, regOrder, validatedPayload, idx, results>>

Init ==
  /\ plugins = <<>>
  /\ regOrder = <<>>
  /\ path = "none"
  /\ pc = "idle"
  /\ hooksPlugin = <<>>
  /\ eventType = ""
  /\ payloadArg = [given |-> FALSE, json |-> FALSE, value |-> EmptyPayload]
  /\ payload = EmptyPayload
  /\ validatedPayload = EmptyPayload
  /\ idx = 1
  /\ results = <<>>
  /\ calls = <<>>
  /\ rets = <<>>
  /\ inflight = {}
  /\ childStdout = <<>>
  /\ childCode = -1
  /\ stdout = <<>>
  /\ exitCode = -1
  /\ permissions = NoPermissions
  /\ args = <<>>
  /\ granted = {}
  /\ flagRuns = <<>>
  /\ handlerWrote = FALSE
  /\ runs = [r \in RunIds |-> IdleRun]
  /\ heap = [r \in RunIds |-> <<>>]
  /\ settings = NoSettings
  /\ written = <<>>
  /\ machine = SourceCheckout

\* The entry of rets for an onLoad that threw.
OnLoadThrows == [kind |-> "onLoadThrows", val |-> Resp("absent", "absent")]

Call(plugin, what, p) ==
  [plugin |-> plugin.name, what |-> what, event |-> eventType, payload |-> p]

----------------------------------------------------------------------------
\* HooksManager (engine path)

\* manager.use(plugin) for a plugin named by one of ns
UseNamed(ns) ==
  /\ pc = "idle"
  /\ Len(plugins) < MaxPlugins
  /\ \E n \in ns, s \in PluginShapes :
       /\ LET plugin == MkPlugin(n, s)
          IN /\ plugins' = PushPlugin(plugins, plugin)
             /\ regOrder' = Append(regOrder, plugin.name)
       /\ UNCHANGED <<path, pc, eventType, payloadArg, payload, validatedPayload,
                      idx, results, calls, rets, inflight, stdout, exitCode, cliVars,
                      permVars, handlerWrote>>
  /\ UNCHANGED <<concVars, mergeVars>>

\* manager.use(plugin) as the dispatch model calls it: every plugin under a
\* name of its own.
Use == UseNamed({Names[Len(plugins) + 1]})

\* Where the loop goes after finishing with plugin number i.
AfterPlugin(i) == IF i < Len(plugins) THEN "load" ELSE "aggregate"

\* A loop that gives up at the first onLoad that throws.
AfterLoadFailure_Abort(i) == "aggregate"

\* The catch sits inside the loop body: after an onLoad that threw the loop
\* goes on with the next plugin.
AfterLoadFailure(i) == AfterPlugin(i)

\* main of the example script up to the first suspension of executeHooks:
\* the argument check, then the payload validation of executeHooks.
Main ==
  /\ pc = "idle"
  /\ \E e \in EventArgs, arg \in PayloadArgs :
       /\ path' = "engine"
       /\ eventType' = e
       /\ payloadArg' = arg
       /\ payload' = ParsedPayload(arg)
       /\ idx' = 1
       /\ granted' = ExampleShebang
       /\ IF e = ""
          THEN /\ pc' = "exited"
               /\ exitCode' = ExitCode(TRUE)
               /\ UNCHANGED <<validatedPayload, results>>
          ELSE IF PayloadAccepted(e, ParsedPayload(arg))
          THEN /\ validatedPayload' = ParsePayload(e, ParsedPayload(arg))
               /\ pc' = AfterPlugin(0)
               /\ UNCHANGED <<results, exitCode>>
          ELSE /\ results' = <<InvalidPayloadResponse>>
               /\ pc' = "aggregate"
               /\ UNCHANGED <<validatedPayload, exitCode>>
       /\ UNCHANGED <<plugins, regOrder, calls, rets, inflight, stdout, cliVars,
                      permissions, args, flagRuns, handlerWrote>>
  /\ UNCHANGED <<concVars, mergeVars>>

\* await plugin.onLoad?.()  (ok = FALSE: onLoad throws, the per-plugin catch
\* records a plugin error and the loop moves on)
LoadPlugin ==
  /\ path = "engine" /\ pc = "load"
  /\ \E ok \in BOOLEAN :
       /\ LET plugin == PluginAt(plugins, idx)
          IN IF plugin.onLoad
             THEN /\ calls' = Append(calls, Call(plugin, "onLoad", EmptyPayload))
                  /\ IF ok
                     THEN /\ pc' = "invoke"
                          /\ UNCHANGED <<results, idx>>
                          /\ rets' = rets
                     ELSE /\ results' = Append(results, PluginErrorResponse)
                          /\ rets' = Append(rets, [plugin |-> plugin.name,
                                                   outcome |-> OnLoadThrows,
                                                   pushed |-> <<PluginErrorResponse>>])
                          /\ pc' = AfterLoadFailure(idx)
                          /\ idx' = idx + 1
             ELSE /\ ok
                  /\ pc' = "invoke"
                  /\ UNCHANGED <<calls, results, idx, rets>>
       /\ UNCHANGED <<plugins, regOrder, path, eventType, payloadArg, payload,
                      validatedPayload, inflight, stdout, exitCode, cliVars,
                      permVars, handlerWrote>>
  /\ UNCHANGED <<concVars, mergeVars>>

\* result = await plugin.on<Event>?.(validatedPayload): the call itself
InvokeHandler ==
  /\ path = "engine" /\ pc = "invoke"
  /\ LET plugin == PluginAt(plugins, idx)
     IN IF HandlerBound(plugin, eventType)
        THEN /\ calls' = Append(calls, Call(plugin, "handler", validatedPayload))
             /\ inflight' = inflight \cup {plugin.name}
             /\ pc' = "await"
             /\ idx' = idx
        ELSE /\ pc' = AfterPlugin(idx)
             /\ idx' = idx + 1
             /\ UNCHANGED <<calls, inflight>>
  /\ UNCHANGED <<plugins, regOrder, path, eventType, payloadArg, payload,
                 validatedPayload, results, rets, stdout, exitCode, cliVars,
                 permVars, handlerWrote>>
  /\ UNCHANGED <<concVars, mergeVars>>

\* The awaited handler settles with outcome o; the rest of the loop body.
HandlerSettles ==
  /\ path = "engine" /\ pc = "await"
  /\ \E o \in Outcomes, wrote \in BOOLEAN :
       /\ handlerWrote' = (handlerWrote \/ wrote)
       /\ LET plugin == PluginAt(plugins, idx)
          IN /\ inflight' = inflight \ {plugin.name}
             /\ rets' = Append(rets, [plugin |-> plugin.name, outcome |-> o,
                                      pushed |-> Pushed(o)])
             /\ results' = results \o Pushed(o)
             /\ IF StopsProcessing(o)
                THEN pc' = "aggregate" /\ idx' = idx
                ELSE pc' = AfterPlugin(idx) /\ idx' = idx + 1
       /\ UNCHANGED <<plugins, regOrder, path, eventType, payloadArg, payload,
                      validatedPayload, calls, stdout, exitCode, cliVars,
                      permVars>>
  /\ UNCHANGED <<concVars, mergeVars>>

\* main after executeHooks returned: pick the final result and print it.
Aggregate ==
  /\ path = "engine" /\ pc = "aggregate"
  /\ stdout' = Append(stdout, FinalResult(results))
  /\ pc' = "done"
  /\ exitCode' = ExitCode(FALSE)
  /\ UNCHANGED <<plugins, regOrder, path, eventType, payloadArg, payload,
                 validatedPayload, idx, results, calls, rets, inflight, cliVars,
                 permVars, handlerWrote>>
  /\ UNCHANGED <<concVars, mergeVars>>

----------------------------------------------------------------------------
\* Command-line entry points (cli path and spawn path)

\* What a hooks file can export by default: nothing usable, or a plugin.
Exports == {<<>>} \cup {<<MkPlugin(Names[1], s)>> : s \in PluginShapes}

\* runHooksFile / hooks-runner, handler threw
HookExecutionErrorResponse == Resp("continue", "Hook execution error")

\* runHooksFile / hooks-runner, no function under "on" + event
NoHandlerResponse == Resp("continue", "No handler found for event type")

\* typeof hooksPlugin["on" + event] === 'function'
\* ("on" + "Load" names the lifecycle callback)
CliHandlerBound(plugin, e) ==
  e \in plugin.bound \/ (e = "Load" /\ plugin.onLoad)

\* cli.ts: result = await hookHandler(parsedPayload) || { action: "continue" }
\* with the catch around it.
CliResult(o) ==
  CASE o.kind = "throws" -> HookExecutionErrorResponse
    [] o.kind = "falsy"  -> DefaultResponse
    [] OTHER             -> o.val

\* hooks-runner.ts: result = await hookHandler(payload) || { action: "continue" }
\* with the catch around it.
RunnerResult(o) ==
  CASE o.kind = "throws" -> HookExecutionErrorResponse
    [] o.kind = "falsy"  -> DefaultResponse
    [] OTHER             -> o.val

\* cli.ts: the run command up to the await of the handler.  A missing event
\* argument is rejected by the argument parser; a default export that is not
\* an object makes runHooksFile throw, which the command turns into exit 1.
RunHooksFile ==
  /\ pc = "idle" /\ plugins = <<>>
  /\ \E exp \in Exports, e \in EventArgs, arg \in PayloadArgs,
        d \in RunDescriptors :
       /\ path' = "cli"
       /\ hooksPlugin' = exp
       /\ permissions' = (IF exp = <<>> THEN NoPermissions ELSE d)
       /\ granted' = CliShebang
       /\ eventType' = e
       /\ payloadArg' = arg
       /\ payload' = ParsedPayload(arg)
       /\ IF e = "" \/ exp = <<>>
          THEN /\ pc' = "exited"
               /\ exitCode' = ExitCode(TRUE)
               /\ UNCHANGED <<calls, inflight, stdout>>
          ELSE IF CliHandlerBound(exp[1], e)
          THEN /\ calls' = Append(calls, [plugin |-> exp[1].name, what |-> "handler",
                                          event |-> e, payload |-> ParsedPayload(arg)])
               /\ inflight' = inflight \cup {exp[1].name}
               /\ pc' = "await"
               /\ UNCHANGED <<stdout, exitCode>>
          ELSE /\ stdout' = Append(stdout, NoHandlerResponse)
               /\ pc' = "done"
               /\ exitCode' = ExitCode(FALSE)
               /\ UNCHANGED <<calls, inflight>>
       /\ UNCHANGED <<engineVars, rets, childStdout, childCode, args, flagRuns,
                      handlerWrote>>
  /\ UNCHANGED <<concVars, mergeVars>>

\* cli.ts: the handler settles; console.log(JSON.stringify(result)).
CliHandlerSettles ==
  /\ path = "cli" /\ pc = "await"
  /\ \E o \in Outcomes, wrote \in BOOLEAN :
       /\ handlerWrote' = wrote
       /\ inflight' = inflight \ {hooksPlugin[1].name}
       /\ rets' = Append(rets, [plugin |-> hooksPlugin[1].name, outcome |-> o,
                                pushed |-> <<CliResult(o)>>])
       /\ stdout' = Append(stdout, CliResult(o))
       /\ pc' = "done"
       /\ exitCode' = ExitCode(FALSE)
       /\ UNCHANGED <<engineVars, path, eventType, payloadArg, payload, calls,
                      cliVars, permVars>>
  /\ UNCHANGED <<concVars, mergeVars>>

\* Earlier cli revision: the run command up to the await of the subprocess.
SpawnHooksFile ==
  /\ pc = "idle" /\ plugins = <<>>
  /\ \E exp \in Exports, e \in EventArgs, arg \in PayloadArgs,
        d \in RunDescriptors :
       /\ path' = "spawn"
       /\ hooksPlugin' = exp
       /\ permissions' = (IF exp = <<>> THEN NoPermissions ELSE d)
       /\ eventType' = e
       /\ payloadArg' = arg
       /\ IF e = "" \/ exp = <<>>
          THEN /\ pc' = "exited"
               /\ exitCode' = ExitCode(TRUE)
               /\ UNCHANGED <<args, granted>>
          ELSE /\ pc' = "child"
               /\ exitCode' = exitCode
               /\ args' = PermissionFlags(d)
               /\ granted' = GrantedBy(PermissionFlags(d))
       /\ UNCHANGED <<engineVars, payload, calls, rets, inflight, childStdout,
                      childCode, stdout, flagRuns, handlerWrote>>
  /\ UNCHANGED <<concVars, mergeVars>>

\* hooks-runner.ts up to the await of the handler.  importOk = FALSE: the
\* import of the hooks file fails inside the subprocess.
RunnerMain ==
  /\ path = "spawn" /\ pc = "child"
  /\ \E importOk \in BOOLEAN :
       /\ importOk => CanImport(granted)
       /\ IF ~importOk
          THEN /\ childCode' = ExitCode(TRUE)
               /\ pc' = "collect"
               /\ UNCHANGED <<payload, calls, inflight, childStdout>>
          ELSE /\ payload' = ParsedPayload(payloadArg)
               /\ IF CliHandlerBound(hooksPlugin[1], eventType)
                  THEN /\ calls' = Append(calls,
                                          Call(hooksPlugin[1], "handler",
                                               ParsedPayload(payloadArg)))
                       /\ inflight' = inflight \cup {hooksPlugin[1].name}
                       /\ pc' = "childAwait"
                       /\ UNCHANGED <<childStdout, childCode>>
                  ELSE /\ childStdout' = Append(childStdout, NoHandlerResponse)
                       /\ childCode' = ExitCode(FALSE)
                       /\ pc' = "collect"
                       /\ UNCHANGED <<calls, inflight>>
       /\ UNCHANGED <<engineVars, path, hooksPlugin, eventType, payloadArg, rets,
                      stdout, exitCode, permVars, handlerWrote>>
  /\ UNCHANGED <<concVars, mergeVars>>

\* hooks-runner.ts: the handler settles; console.log(JSON.stringify(result)).
RunnerHandlerSettles ==
  /\ path = "spawn" /\ pc = "childAwait"
  /\ \E o \in Outcomes, wrote \in BOOLEAN :
       /\ handlerWrote' = wrote
       /\ inflight' = inflight \ {hooksPlugin[1].name}
       /\ rets' = Append(rets, [plugin |-> hooksPlugin[1].name, outcome |-> o,
                                pushed |-> <<RunnerResult(o)>>])
       /\ childStdout' = Append(childStdout, RunnerResult(o))
       /\ childCode' = ExitCode(FALSE)
       /\ pc' = "collect"
       /\ UNCHANGED <<engineVars, path, hooksPlugin, eventType, payloadArg, payload,
                      calls, stdout, exitCode, permVars>>
  /\ UNCHANGED <<concVars, mergeVars>>

\* Earlier cli revision: process.output() resolved.  A non-zero code throws,
\* which the command turns into exit 1; otherwise the output is printed.
Collect ==
  /\ path = "spawn" /\ pc = "collect"
  /\ IF childCode # 0
     THEN pc' = "exited" /\ exitCode' = ExitCode(TRUE) /\ stdout' = stdout
     ELSE pc' = "done" /\ exitCode' = ExitCode(FALSE) /\ stdout' = stdout \o childStdout
  /\ UNCHANGED <<engineVars, path, hooksPlugin, eventType, payloadArg, payload,
                 calls, rets, inflight, childStdout, childCode, permVars,
                 handlerWrote>>
  /\ UNCHANGED <<concVars, mergeVars>>

\* An awaited handler never settles.  No entry point bounds the wait: the
\* engine and cli.ts await the handler itself, the earlier revision awaits
\* process.output() of the subprocess that awaits it.
HandlerHangs ==
  /\ pc \in {"await", "childAwait"}
  /\ pc' = "hung"
  /\ UNCHANGED <<engineVars, cliVars, permVars, path, eventType, payloadArg,
                 payload, calls, rets, inflight, stdout, exitCode, handlerWrote>>
  /\ UNCHANGED <<concVars, mergeVars>>

Next ==
  \/ Use
  \/ Main
  \/ LoadPlugin
  \/ InvokeHandler
  \/ HandlerSettles
  \/ Aggregate
  \/ RunHooksFile
  \/ CliHandlerSettles
  \/ SpawnHooksFile
  \/ RunnerMain
  \/ RunnerHandlerSettles
  \/ Collect
  \/ HandlerHangs

Spec == Init /\ [][Next]_vars

\* The event loop keeps running whatever can run.
FairSpec == Spec /\ WF_vars(Next)

----------------------------------------------------------------------------
\* Registration on its own

\* name: z.string() accepts every string, the empty one and one already in
\* use included.
AnyNames == {"", Names[1], Names[2]}

\* manager.use(plugin) with a plugin of any name
UseAny == UseNamed(AnyNames)

NextReg == UseAny

SpecReg == Init /\ [][NextReg]_vars

----------------------------------------------------------------------------
\* The flag builder on its own

\* A hooks file with any descriptor, before anything runs.
InitPerm ==
  /\ plugins = <<>>
  /\ regOrder = <<>>
  /\ path = "none"
  /\ pc = "idle"
  /\ hooksPlugin = <<>>
  /\ eventType = ""
  /\ payloadArg = [given |-> FALSE, json |-> FALSE, value |-> EmptyPayload]
  /\ payload = EmptyPayload
  /\ validatedPayload = EmptyPayload
  /\ idx = 1
  /\ results = <<>>
  /\ calls = <<>>
  /\ rets = <<>>
  /\ inflight = {}
  /\ childStdout = <<>>
  /\ childCode = -1
  /\ stdout = <<>>
  /\ exitCode = -1
  /\ \E k \in 0..MaxKeys :
       \E ks \in [1..k -> CapKeys], vs \in [1..k -> AllowValues],
          d \in DenyObjects :
         /\ DistinctKeys(ks)
         /\ permissions = Descriptor(Entries(ks, vs), d)
  /\ args = <<>>
  /\ granted = {}
  /\ flagRuns = <<>>
  /\ handlerWrote = FALSE
  /\ runs = [r \in RunIds |-> IdleRun]
  /\ heap = [r \in RunIds |-> <<>>]
  /\ settings = NoSettings
  /\ written = <<>>
  /\ machine = SourceCheckout

\* The flag-building block of runHooksFile, run once more on the same
\* descriptor.
Resolve ==
  /\ Len(flagRuns) < MaxResolves
  /\ args' = PermissionFlags(permissions)
  /\ flagRuns' = Append(flagRuns, PermissionFlags(permissions))
  /\ UNCHANGED <<engineVars, cliVars, path, pc, eventType, payloadArg, payload,
                 calls, rets, inflight, stdout, exitCode, permissions, granted,
                 handlerWrote>>
  /\ UNCHANGED <<concVars, mergeVars>>

NextPerm == Resolve

SpecPerm == InitPerm /\ [][NextPerm]_vars

----------------------------------------------------------------------------
\* Two calls of executeHooks in progress at once

\* A manager with two plugins and no call started.
InitConc ==
  /\ plugins \in ConcRegistrations
  /\ regOrder = <<Names[1], Names[2]>>
  /\ path = "none"
  /\ pc = "idle"
  /\ hooksPlugin = <<>>
  /\ eventType = ""
  /\ payloadArg = [given |-> FALSE, json |-> FALSE, value |-> EmptyPayload]
  /\ payload = EmptyPayload
  /\ validatedPayload = EmptyPayload
  /\ idx = 1
  /\ results = <<>>
  /\ calls = <<>>
  /\ rets = <<>>
  /\ inflight = {}
  /\ childStdout = <<>>
  /\ childCode = -1
  /\ stdout = <<>>
  /\ exitCode = -1
  /\ permissions = NoPermissions
  /\ args = <<>>
  /\ granted = {}
  /\ flagRuns = <<>>
  /\ handlerWrote = FALSE
  /\ runs = [r \in RunIds |-> IdleRun]
  /\ heap = [r \in RunIds |-> <<>>]
  /\ settings = NoSettings
  /\ written = <<>>
  /\ machine = SourceCheckout

\* What the concurrent calls leave alone.
ConcFrame ==
  UNCHANGED <<engineVars, cliVars, permVars, mergeVars, path, pc, eventType,
              payloadArg, payload, calls, rets, inflight, stdout, exitCode,
              handlerWrote>>

\* manager.executeHooks(e, p) up to its first await: the results array and
\* the payload validation.
ConcStart ==
  /\ \E r \in RunIds, e \in ConcEvents, p \in ConcPayloads :
       /\ runs[r].pc = "idle"
       /\ heap' = [heap EXCEPT ![ResultsOf(r)] = <<>>]
       /\ LET run == [runs[r] EXCEPT !.event = e, !.payload = p]
          IN runs' = [runs EXCEPT ![r] =
               IF PayloadAccepted(e, p)
               THEN ConcAfter(run, 0, FALSE, plugins, <<>>)
               ELSE [run EXCEPT !.pc = "returned",
                                !.returned = <<InvalidPayloadResponse>>]]
  /\ ConcFrame

\* await plugin.onLoad?.() of one call
ConcLoad ==
  /\ \E r \in RunIds, ok \in BOOLEAN :
       /\ runs[r].pc = "load"
       /\ LET run == runs[r]
              plugin == PluginAt(plugins, run.idx)
              h == ResultsOf(r)
          IN IF plugin.onLoad /\ ~ok
             THEN /\ heap' = [heap EXCEPT ![h] = Append(@, PluginErrorResponse)]
                  /\ runs' = [runs EXCEPT ![r] =
                       ConcAfter([run EXCEPT !.outs =
                                    Append(@, [plugin |-> run.idx,
                                               outcome |-> OnLoadThrows])],
                                 run.idx, FALSE, plugins, heap'[h])]
             ELSE /\ ok
                  /\ heap' = heap
                  /\ runs' = [runs EXCEPT ![r].pc = "invoke"]
  /\ ConcFrame

\* result = await plugin.on<Event>?.(validatedPayload) of one call: the call
ConcInvoke ==
  /\ \E r \in RunIds :
       /\ runs[r].pc = "invoke"
       /\ LET run == runs[r]
              plugin == PluginAt(plugins, run.idx)
          IN runs' = [runs EXCEPT ![r] =
               IF HandlerBound(plugin, run.event)
               THEN [run EXCEPT !.pc = "await"]
               ELSE ConcAfter(run, run.idx, FALSE, plugins, heap[ResultsOf(r)])]
       /\ heap' = heap
  /\ ConcFrame

\* The awaited handler of one call settles; the rest of the loop body.
ConcSettle ==
  /\ \E r \in RunIds, o \in ConcOutcomes :
       /\ runs[r].pc = "await"
       /\ LET run == runs[r]
              h == ResultsOf(r)
          IN /\ heap' = [heap EXCEPT ![h] = @ \o Pushed(o)]
             /\ runs' = [runs EXCEPT ![r] =
                  ConcAfter([run EXCEPT !.outs =
                               Append(@, [plugin |-> run.idx, outcome |-> o])],
                            run.idx, StopsProcessing(o), plugins, heap'[h])]
  /\ ConcFrame

NextConc ==
  \/ ConcStart
  \/ ConcLoad
  \/ ConcInvoke
  \/ ConcSettle

SpecConc == InitConc /\ [][NextConc]_vars

----------------------------------------------------------------------------
\* The init command on a settings file

\* A settings file of any content on any machine, before init runs: no
\* hooks section, or one with a list under PreToolUse and at most one entry
\* under Stop.
InitMerge ==
  /\ plugins = <<>>
  /\ regOrder = <<>>
  /\ path = "none"
  /\ pc = "idle"
  /\ hooksPlugin = <<>>
  /\ eventType = ""
  /\ payloadArg = [given |-> FALSE, json |-> FALSE, value |-> EmptyPayload]
  /\ payload = EmptyPayload
  /\ validatedPayload = EmptyPayload
  /\ idx = 1
  /\ results = <<>>
  /\ calls = <<>>
  /\ rets = <<>>
  /\ inflight = {}
  /\ childStdout = <<>>
  /\ childCode = -1
  /\ stdout = <<>>
  /\ exitCode = -1
  /\ permissions = NoPermissions
  /\ args = <<>>
  /\ granted = {}
  /\ flagRuns = <<>>
  /\ handlerWrote = FALSE
  /\ runs = [r \in RunIds |-> IdleRun]
  /\ heap = [r \in RunIds |-> <<>>]
  /\ machine \in Machines
  /\ written = <<>>
  /\ \E o \in OtherSettings :
       \/ settings = [other |-> o, hasHooks |-> FALSE, hooks |-> EmptyObject]
       \/ \E k \in 0..MaxEntries, j \in 0..1 :
            \E pre \in [1..k -> ExistingEntries], stop \in [1..j -> ExistingEntries] :
              settings = [other |-> o, hasHooks |-> TRUE,
                          hooks |-> IF j = 0 THEN [t \in {"PreToolUse"} |-> pre]
                                    ELSE [t \in {"PreToolUse", "Stop"} |->
                                            IF t = "Stop" THEN stop ELSE pre]]

\* initHooks from reading the existing settings to writing the merged ones.
\* (When the hooks file cannot be imported init warns and writes nothing.)
InitHooks ==
  /\ Len(written) < MaxInits
  /\ settings' = smartMergeSettings(settings,
                                    completeSettings(getClaudeHooksPath(machine)))
  /\ written' = Append(written, settings')
  /\ UNCHANGED <<engineVars, cliVars, permVars, concVars, machine, path, pc,
                 eventType, payloadArg, payload, calls, rets, inflight, stdout,
                 exitCode, handlerWrote>>

NextMerge == InitHooks

SpecMerge == InitMerge /\ [][NextMerge]_vars

----------------------------------------------------------------------------
\* Properties

Ended == pc \in {"done", "exited"}

HandlerCallIdx == {k \in 1..Len(calls) : calls[k].what = "handler"}

HandlerRetIdx == {r \in 1..Len(rets) : rets[r].outcome.kind # "onLoadThrows"}

\* Position of a plugin name in the order of registration.
RegIndex(n) == CHOOSE i \in 1..Len(regOrder) : regOrder[i] = n

\* The response recorded for entry r of rets has action block.
RecordedBlock(r) ==
  rets[r].pushed # <<>> /\ rets[r].pushed[1].action = "block"

\* A handler returned a value that conforms to HookResponseSchema and blocks.
WellFormedBlock(o) ==
  o.kind = "value" /\ ResponseValid(o.val) /\ o.val.action = "block"

\* A field is required when its schema type rejects a missing value.
RequiredFields(e) ==
  {f \in DOMAIN SchemaOf(e) : ~Accepts(SchemaOf(e)[f], "absent")}
  \cup {"context"}
  \cup {f \in DOMAIN ContextSchema : ~Accepts(ContextSchema[f], "absent")}

MissingRequired(e, p) == \E f \in RequiredFields(e) : p[f] = "absent"

\* C1: no handler is ever invoked with a payload that fails the schema of
\* the dispatched event type, and a run whose payload fails validation
\* invokes no handler at all.
C1_ValidationGate ==
  /\ \A k \in HandlerCallIdx :
       calls[k].event \in EventTypes =>
         Conforms(calls[k].event, calls[k].payload)
  /\ (path # "none" /\ eventType \in EventTypes /\ ~Conforms(eventType, payload))
       => HandlerCallIdx = {}

\* C2: once the response recorded for a plugin has action block, no plugin
\* registered after it is invoked in that run, neither its handler nor its
\* onLoad.
C2_ShortCircuit ==
  path = "engine" =>
    \A r \in 1..Len(rets), k \in 1..Len(calls) :
      RecordedBlock(r) => RegIndex(calls[k].plugin) <= RegIndex(rets[r].plugin)

\* C2 witness: [A, B] both bound to the event, B with an onLoad, A blocked,
\* the run is over and A's handler is the only callback that ran.
C2_Witness ==
  /\ path = "engine" /\ pc = "done"
  /\ Len(plugins) = 2
  /\ HandlerBound(plugins[1], eventType) /\ HandlerBound(plugins[2], eventType)
  /\ plugins[2].onLoad /\ ~plugins[1].onLoad
  /\ Len(rets) = 1 /\ rets[1].plugin = plugins[1].name /\ RecordedBlock(1)
  /\ Len(calls) = 1

\* C3: for a run whose payload passed validation the printed verdict is the
\* first block response of results if there is one, else the last response
\* of results, else exactly {action: continue}; with two plugins that both
\* return continue the message is the second plugin's; with no plugin the
\* verdict is {action: continue}.
C3_Aggregation ==
  (path = "engine" /\ pc = "done" /\ PayloadAccepted(eventType, payload)) =>
    /\ Len(stdout) = 1
    /\ \A i \in 1..Len(results) :
         (results[i].action = "block"
          /\ \A j \in 1..(i - 1) : results[j].action # "block")
           => stdout[1] = results[i] /\ i = Len(results)
    /\ ((\A i \in 1..Len(results) : results[i].action # "block")
        /\ results # <<>>)
         => stdout[1] = results[Len(results)]
    /\ results = <<>> => stdout[1] = Resp("continue", "absent")
    /\ plugins = <<>> => stdout[1] = Resp("continue", "absent")
    /\ (Len(plugins) = 2 /\ Len(rets) = 2
        /\ \A r \in 1..2 : /\ rets[r].outcome.kind = "value"
                           /\ ResponseValid(rets[r].outcome.val)
                           /\ rets[r].outcome.val.action = "continue")
         => stdout[1].message = rets[2].outcome.val.message

\* C3 witness: [A, B] returned continue with messages m1 and m2 and the
\* verdict printed carries m2.
C3_Witness ==
  /\ path = "engine" /\ pc = "done"
  /\ Len(plugins) = 2 /\ Len(rets) = 2 /\ Len(results) = 2
  /\ rets[1].outcome.kind = "value" /\ rets[1].outcome.val.message = "m1"
  /\ rets[2].outcome.kind = "value" /\ rets[2].outcome.val.message = "m2"
  /\ stdout = <<Resp("continue", "m2")>>

\* C4: a printed verdict has action block only if some handler invoked in
\* the run returned a value that conforms to the HookResponse contract and
\* has action block.
C4_OnlyWellFormedBlock ==
  \A k \in 1..Len(stdout) :
    stdout[k].action = "block" =>
      \E r \in HandlerRetIdx : WellFormedBlock(rets[r].outcome)

\* C5: when a handler throws, the response recorded for its plugin has
\* action continue and a non-empty message, the run does not end in an
\* error exit, and the loop goes on: at the end of the run every later
\* plugin bound to the event had its handler invoked, unless its own onLoad
\* threw or a plugin before it blocked.
C5_FailOpenOnCrash ==
  \A r \in HandlerRetIdx :
    rets[r].outcome.kind = "throws" =>
      /\ Len(rets[r].pushed) = 1
      /\ rets[r].pushed[1].action = "continue"
      /\ IsString(rets[r].pushed[1].message)
      /\ rets[r].pushed[1].message # ""
      /\ pc # "exited" /\ exitCode # 1
      /\ (path = "engine" /\ pc = "done") =>
           \A j \in (RegIndex(rets[r].plugin) + 1)..Len(regOrder) :
             \/ \E k \in HandlerCallIdx : calls[k].plugin = regOrder[j]
             \/ \E q \in 1..Len(plugins) :
                  /\ plugins[q].name = regOrder[j]
                  /\ ~HandlerBound(plugins[q], eventType)
             \/ \E q \in 1..Len(rets) :
                  /\ rets[q].plugin = regOrder[j]
                  /\ rets[q].outcome.kind = "onLoadThrows"
             \/ \E q \in 1..Len(rets) :
                  /\ RecordedBlock(q)
                  /\ RegIndex(rets[q].plugin) < j

\* C5 witness: the first of two plugins threw, the second plugin's handler
\* was invoked after it, and the run ended with a verdict.
C5_Witness ==
  /\ path = "engine" /\ pc = "done" /\ exitCode = 0
  /\ Len(plugins) = 2 /\ Len(rets) = 2
  /\ rets[1].outcome.kind = "throws" /\ rets[1].plugin = regOrder[1]
  /\ rets[2].plugin = regOrder[2]
  /\ \E k \in HandlerCallIdx : calls[k].plugin = regOrder[2]

\* C6: a returned value that does not conform to the HookResponse contract
\* never reaches results or the output unmodified; what is recorded for it
\* is a continue response with the invalid-response message.
C6_ResponseValidation ==
  \A r \in HandlerRetIdx :
    (rets[r].outcome.kind = "value" /\ ~ResponseValid(rets[r].outcome.val)) =>
      /\ rets[r].pushed = <<Resp("continue", "Plugin returned invalid response")>>
      /\ \A i \in 1..Len(results) : results[i] # rets[r].outcome.val
      /\ \A i \in 1..Len(stdout) : stdout[i] # rets[r].outcome.val

\* C7: a finished dispatch of a known event type whose payload misses a
\* required field prints a continue response with a non-empty message.
C7_InvalidPayloadFailOpen ==
  (pc = "done" /\ eventType \in EventTypes
   /\ MissingRequired(eventType, payload)) =>
    /\ Len(stdout) = 1
    /\ stdout[1].action = "continue"
    /\ IsString(stdout[1].message)
    /\ stdout[1].message # ""

\* C8: a dispatch with an event type outside the enumeration ends in an
\* error for the caller and prints no response.
C8_UnknownEventIsError ==
  (Ended /\ eventType \notin EventTypes) =>
    /\ exitCode # 0
    /\ stdout = <<>>

\* C9: handlers are invoked in registration order, at most once per plugin,
\* one at a time: at most one handler is in progress, and it is the one
\* started last.
C9_OrderedSequential ==
  path = "engine" =>
    /\ \A k, l \in HandlerCallIdx :
         k < l => RegIndex(calls[k].plugin) < RegIndex(calls[l].plugin)
    /\ Cardinality(inflight) <= 1
    /\ Cardinality(HandlerCallIdx) = Cardinality(HandlerRetIdx) + Cardinality(inflight)
    /\ \A k \in HandlerCallIdx :
         calls[k].plugin \in inflight => \A l \in HandlerCallIdx : l <= k

\* C9 witness: the second plugin's handler is running after the first one's
\* settled.
C9_Witness ==
  /\ path = "engine" /\ pc = "await"
  /\ Len(plugins) = 2 /\ Cardinality(HandlerCallIdx) = 2
  /\ inflight = {regOrder[2]}
  /\ \E r \in HandlerRetIdx : rets[r].plugin = regOrder[1]

\* C10: every dispatch started with an event argument and a usable hooks
\* file ends with exit code 0 and exactly one well-formed HookResponse on
\* standard output.
C10_ExactlyOneVerdict ==
  (Ended /\ eventType # "" /\ (path \in {"cli", "spawn"} => hooksPlugin # <<>>)) =>
    /\ exitCode = 0
    /\ Len(stdout) = 1
    /\ ResponseValid(stdout[1])

----------------------------------------------------------------------------
\* Permission resolution

\* The flags the reference mapping gives one capability: one scoped flag per
\* listed resource in list order for a list, one unscoped flag for true,
\* nothing for false or a missing key.
ReferenceFor(perm, c) ==
  LET at == {i \in 1..Len(perm.allow) : perm.allow[i].key = c}
  IN IF at = {} THEN <<>>
     ELSE LET v == perm.allow[CHOOSE i \in at : TRUE].val
          IN CASE v.kind = "list" ->
                    [i \in 1..Len(v.items) |->
                       [flag |-> "allow", cap |-> c, scoped |-> TRUE,
                        scope |-> v.items[i]]]
               [] v.kind = "bool" /\ v.flag ->
                    <<[flag |-> "allow", cap |-> c, scoped |-> FALSE,
                       scope |-> ""]>>
               [] OTHER -> <<>>

\* The reference mapping over the first n capabilities of the fixed order.
RECURSIVE ReferenceFlags(_, _)
ReferenceFlags(perm, n) ==
  IF n = 0 THEN <<>>
  ELSE ReferenceFlags(perm, n - 1) \o ReferenceFor(perm, Caps[n])

\* The same object literal with its keys written in the opposite order.
Reversed(obj) == [i \in 1..Len(obj) |-> obj[Len(obj) + 1 - i]]

\* { allow: { read: ["."], write: true } }
ReadDotWriteAll ==
  Descriptor(<<[key |-> "read", val |-> ListValue(<<".">>)],
               [key |-> "write", val |-> BoolValue(TRUE)]>>, <<>>)

\* C11: every flag list built for a descriptor is the concatenation, in the
\* order read, write, net, env, run, sys, of the flags of each capability
\* under allow (one scoped flag per listed resource in list order, one
\* unscoped flag for true, nothing for false or absent); the order the keys
\* are written in does not matter; { allow: { read: ["."], write: true } }
\* gives the scoped read flag for "." followed by the unscoped write flag;
\* building again gives the same list.
C11_ResolveIsReferenceMapping ==
  \A k \in 1..Len(flagRuns) :
    /\ flagRuns[k] = ReferenceFlags(permissions, Len(Caps))
    /\ flagRuns[k] =
         PermissionFlags(Descriptor(Reversed(permissions.allow), permissions.deny))
    /\ permissions = ReadDotWriteAll =>
         flagRuns[k] = <<ScopedFlag("read", "."), AllFlag("write")>>
    /\ flagRuns[k] = flagRuns[1]

\* C11 witness: a descriptor that writes write before read, built twice.
C11_Witness ==
  /\ Len(flagRuns) >= 2
  /\ permissions.allow = <<[key |-> "write", val |-> BoolValue(TRUE)],
                           [key |-> "read", val |-> ListValue(<<"/tmp", ".">>)]>>
  /\ flagRuns[2] = <<ScopedFlag("read", "/tmp"), ScopedFlag("read", "."),
                     AllFlag("write")>>

\* The negative scoped flag of resource r of capability c.
DenyFlag(c, r) == [flag |-> "deny", cap |-> c, scoped |-> TRUE, scope |-> r]

\* C12: for every capability key under deny, every listed resource appears
\* in the flag list as a negative scoped flag, after the allow flags of that
\* capability.
C12_DenyFlagsEmitted ==
  \A k \in 1..Len(flagRuns), i \in 1..Len(permissions.deny) :
    LET c == permissions.deny[i].key
        items == permissions.deny[i].val.items
    IN c \in CapSet =>
         \A j \in 1..Len(items) :
           \E pos \in 1..Len(flagRuns[k]) :
             /\ flagRuns[k][pos] = DenyFlag(c, items[j])
             /\ \A q \in 1..Len(flagRuns[k]) :
                  (flagRuns[k][q].flag = "allow" /\ flagRuns[k][q].cap = c)
                    => q < pos

----------------------------------------------------------------------------
\* Execution boundary

\* C13: on the command-line paths a handler runs in a process that holds
\* exactly the permission flags resolved from the descriptor of its hooks
\* file: every flag held is allowed by the descriptor, and a descriptor
\* without net leaves the handler without network permission.
C13_LeastPrivilege ==
  (path \in {"cli", "spawn"} /\ HandlerCallIdx # {}) =>
    /\ granted = GrantedBy(ReferenceFlags(permissions, Len(Caps)))
    /\ \A f \in granted :
         f.flag = "allow" /\ ReferenceFor(permissions, f.cap) # <<>>
    /\ ReferenceFor(permissions, "net") = <<>> =>
         ~ \E f \in granted : f.cap = "net"

\* The subprocess ended without exactly one well-formed response line on
\* its standard output.
MalformedChildOutput ==
  childCode = 0 /\ (handlerWrote \/ Len(childStdout) # 1
                    \/ ~ResponseValid(childStdout[1]))

\* C14: when the handler subprocess exits with a non-zero code, or its
\* standard output is not exactly one well-formed response line, the run
\* still ends normally and its result is one continue response carrying a
\* diagnostic message.
C14_BoundaryFailOpen ==
  (path = "spawn" /\ Ended /\ (childCode > 0 \/ MalformedChildOutput)) =>
    /\ exitCode = 0
    /\ Len(stdout) = 1
    /\ stdout[1].action = "continue"
    /\ IsString(stdout[1].message)

\* C15: every dispatch run that starts eventually ends.
C15_Terminates == (path # "none") ~> Ended

\* C16: a finished dispatch has written exactly one line to standard output,
\* the verdict, whatever the handlers wrote.
C16_SingleLine ==
  pc = "done" => (Len(stdout) = 1 /\ ~handlerWrote)

\* The run was started without its event argument.
InvalidInvocation == eventType = ""

\* The run could not dispatch at all: no usable hooks file, or the
\* subprocess failed.
DispatchFailed ==
  path \in {"cli", "spawn"} /\ (hooksPlugin = <<>> \/ childCode > 0)

\* C17: a run that dispatched exits with code 0 whatever the action of its
\* verdict and whether or not the payload passes validation; a run started
\* without a required argument exits with a non-zero code.
C17_ExitCodes ==
  /\ pc = "done" => exitCode = 0
  /\ (Ended /\ ~InvalidInvocation /\ ~DispatchFailed) =>
       (pc = "done" /\ exitCode = 0)
  /\ (Ended /\ InvalidInvocation) => (exitCode # 0 /\ stdout = <<>>)

\* C17 witness: a run on a payload that fails validation ended with a block
\* verdict and exit code 0.
C17_Witness ==
  /\ pc = "done" /\ exitCode = 0
  /\ eventType \in EventTypes /\ ~Conforms(eventType, payload)
  /\ stdout[1].action = "block"

----------------------------------------------------------------------------
\* Registration

\* The step is a call of use(): regOrder grows with every call.
Registers == regOrder' # regOrder

\* The name of the plugin the step registers.
RegisteredName == regOrder'[Len(regOrder')]

\* The step appends one plugin of that name and leaves the others alone.
AppendsPlugin ==
  /\ Len(plugins') = Len(plugins) + 1
  /\ SubSeq(plugins', 1, Len(plugins)) = plugins
  /\ plugins'[Len(plugins')].name = RegisteredName

\* C18 as amended: every registration succeeds, whatever the name of the
\* plugin, the empty name included; it appends the plugin at the end of the
\* list and leaves the existing entries and their order unchanged.
C18_RegisterAlwaysAppends == [][Registers => AppendsPlugin]_vars

\* C18 witness: a plugin with the empty name was registered behind a named
\* one and is in the list.
C18_Witness ==
  /\ Len(plugins) >= 2
  /\ plugins[1].name = Names[1]
  /\ plugins[2].name = ""
  /\ regOrder = <<Names[1], "">>

\* C18 as claimed: a registration with a non-empty name appends the plugin
\* at the end and leaves the existing entries unchanged; a registration with
\* the empty name fails and leaves the list unchanged.
C18_EmptyNameRejected ==
  [][Registers => IF RegisteredName = "" THEN plugins' = plugins
                  ELSE AppendsPlugin]_vars

----------------------------------------------------------------------------
\* Absent handlers and onLoad

\* The plugin an entry of calls or rets names has a handler for the event of
\* the run.
BoundByName(n) ==
  IF path = "engine" THEN HandlerBound(plugins[RegIndex(n)], eventType)
  ELSE CliHandlerBound(hooksPlugin[1], eventType)

\* No plugin of the run has a handler for its event.
NoHandlerAnywhere ==
  IF path = "engine"
  THEN \A i \in 1..Len(plugins) : ~HandlerBound(plugins[i], eventType)
  ELSE hooksPlugin # <<>> /\ ~CliHandlerBound(hooksPlugin[1], eventType)

\* C19: a plugin without a handler for the dispatched event contributes no
\* response; when no plugin of a run with a valid payload has a handler for
\* the event, the verdict is { action: continue } without a message.
C19_AbsentHandlerContributesNothing ==
  /\ \A r \in 1..Len(rets) : rets[r].pushed # <<>> => BoundByName(rets[r].plugin)
  /\ (pc = "done" /\ eventType \in EventTypes /\ Conforms(eventType, payload)
      /\ NoHandlerAnywhere) =>
       stdout = <<DefaultResponse>>

\* Plugin number i of the engine's loop has been reached.
Reached(i) == i < idx \/ (i = idx /\ pc \in {"invoke", "await", "hung"})

\* C20: in executeHooks every plugin reached that has an onLoad had it
\* invoked, and immediately before its handler if that was invoked.  An
\* onLoad that throws is caught: it is recorded as one continue response for
\* that plugin, whose handler is then not invoked; the run is not aborted
\* and, unless a handler blocks, goes through every later plugin.
C20_OnLoadHandling ==
  path = "engine" =>
    /\ \A i \in 1..Len(plugins) :
         (Reached(i) /\ plugins[i].onLoad) =>
           \E k \in 1..Len(calls) :
             calls[k].what = "onLoad" /\ calls[k].plugin = plugins[i].name
    /\ \A k \in HandlerCallIdx :
         plugins[RegIndex(calls[k].plugin)].onLoad =>
           /\ k > 1
           /\ calls[k - 1].what = "onLoad"
           /\ calls[k - 1].plugin = calls[k].plugin
    /\ \A r \in 1..Len(rets) :
         rets[r].outcome.kind = "onLoadThrows" =>
           /\ Len(rets[r].pushed) = 1
           /\ rets[r].pushed[1].action = "continue"
           /\ \A k \in HandlerCallIdx : calls[k].plugin # rets[r].plugin
           /\ pc # "exited"
           /\ (pc = "done" /\ ~ \E q \in 1..Len(rets) : RecordedBlock(q)) =>
                /\ idx = Len(plugins) + 1
                /\ \A i \in 1..Len(plugins) : Reached(i)
                /\ exitCode = 0
                /\ stdout[1].action # "block"

\* C20 witness: the onLoad of the first plugin threw and the handler of the
\* second plugin ran to the end of the dispatch.
C20_Witness ==
  /\ path = "engine" /\ pc = "done"
  /\ Len(plugins) >= 2 /\ Len(rets) >= 2
  /\ rets[1].outcome.kind = "onLoadThrows" /\ rets[1].plugin = regOrder[1]
  /\ rets[2].outcome.kind = "value" /\ rets[2].plugin = regOrder[2]
  /\ plugins[2].onLoad
  /\ \E k \in HandlerCallIdx : calls[k].plugin = regOrder[2]

----------------------------------------------------------------------------
\* Concurrent runs

\* What one await of a run appends to its results when the run is alone.
AlonePush(out) ==
  IF out.outcome.kind = "onLoadThrows" THEN <<PluginErrorResponse>>
  ELSE Pushed(out.outcome)

\* The results of a run executed alone whose awaits resolve to outs[1..n].
RECURSIVE AloneResults(_, _)
AloneResults(outs, n) ==
  IF n = 0 THEN <<>> ELSE AloneResults(outs, n - 1) \o AlonePush(outs[n])

\* A run executed alone stops at plugin number i: the loop is at its end or
\* the handler of plugin i returned a well-formed block.
AloneStopsAt(run, i) ==
  \/ i = Len(plugins) + 1
  \/ /\ run.outs # <<>>
     /\ run.outs[Len(run.outs)].plugin = i
     /\ run.outs[Len(run.outs)].outcome.kind # "onLoadThrows"
     /\ StopsProcessing(run.outs[Len(run.outs)].outcome)

\* The awaits of a run are those of its own pass over the plugins: in
\* registration order, one per plugin at most, none for a plugin that has
\* no handler for the event unless its onLoad threw, and none missing
\* before the position of the loop.
OwnPass(run) ==
  /\ \A k, l \in 1..Len(run.outs) : k < l => run.outs[k].plugin < run.outs[l].plugin
  /\ \A k \in 1..Len(run.outs) :
       LET plugin == plugins[run.outs[k].plugin]
       IN IF run.outs[k].outcome.kind = "onLoadThrows" THEN plugin.onLoad
          ELSE HandlerBound(plugin, run.event)
  /\ \A i \in 1..Len(plugins) :
       (i < run.idx /\ HandlerBound(plugins[i], run.event)) =>
         \E k \in 1..Len(run.outs) : run.outs[k].plugin = i

\* C21: of two calls of executeHooks on the same registration whose steps
\* interleave at the awaits, each returns the result sequence of its own
\* pass executed alone, and so the same verdict: the results array of a call
\* holds its own responses only, and a call stops early only on a block of
\* its own.
C21_IndependentRuns ==
  \A r \in RunIds :
    LET run == runs[r]
    IN /\ run.pc \in {"load", "invoke", "await"} =>
            /\ heap[r] = AloneResults(run.outs, Len(run.outs))
            /\ OwnPass(run)
       /\ (run.pc = "returned" /\ PayloadAccepted(run.event, run.payload)) =>
            /\ run.returned = AloneResults(run.outs, Len(run.outs))
            /\ FinalResult(run.returned) =
                 FinalResult(AloneResults(run.outs, Len(run.outs)))
            /\ OwnPass(run)
            /\ AloneStopsAt(run, run.idx)
       /\ (run.pc = "returned" /\ ~PayloadAccepted(run.event, run.payload)) =>
            /\ run.returned = <<InvalidPayloadResponse>>
            /\ run.outs = <<>>

\* C21 witness: the first call returned a block of its first plugin while
\* the second call, started before that, went on to the second plugin and
\* returned without a block.
C21_Witness ==
  /\ runs[1].pc = "returned" /\ runs[2].pc = "returned"
  /\ Len(runs[1].returned) = 1 /\ runs[1].returned[1].action = "block"
  /\ runs[1].idx = 1
  /\ runs[2].idx = Len(plugins) + 1
  /\ Len(runs[2].returned) = 2
  /\ \A k \in 1..2 : runs[2].returned[k].action = "continue"

\* The command bindings of a hook list in document order: an entry that is
\* a binding itself, or the bindings nested in a wrapper entry.
RECURSIVE BindingsOf(_)
BindingsOf(entries) ==
  IF entries = <<>> THEN <<>>
  ELSE LET hook == Head(entries)
       IN (IF hook.hasNested THEN hook.nested
           ELSE IF hook.type = "command"
           THEN <<Binding(hook.type, hook.command)>>
           ELSE <<>>)
          \o BindingsOf(Tail(entries))

\* A command binding that does not mention claude-hooks anywhere.
ForeignBinding(b) == b.type = "command" /\ ~IncludesClaudeHooks(b.command)

ForeignBindings(entries) == SelectSeq(BindingsOf(entries), ForeignBinding)

\* The configuration init generates on this machine.
Generated == completeSettings(getClaudeHooksPath(machine))

\* C22: a run of init keeps, under every event type of the existing
\* document, every command binding that does not mention claude-hooks, top
\* level or nested in a wrapper entry, in its original order and ahead of
\* the generated entries, which end the list.
C22_ForeignBindingsKept ==
  [][written' # written =>
       \A t \in DOMAIN settings.hooks :
         LET after == HooksUnder(settings', t)
             gen == Generated.hooks[t]
             cut == Len(after) - Len(gen)
         IN /\ cut >= 0
            /\ SubSeq(after, cut + 1, Len(after)) = gen
            /\ ForeignBindings(SubSeq(after, 1, cut))
                 = ForeignBindings(settings.hooks[t])]_vars

\* C23: a run of init keeps every top-level key other than hooks, with its
\* value, whether or not the existing document has a hooks section.
C23_OtherKeysKept ==
  [][written' # written =>
       \A k \in DOMAIN settings.other :
         /\ k \in DOMAIN settings'.other
         /\ settings'.other[k] = settings.other[k]]_vars

\* The bindings under event type t of a document that run the generated
\* command of this machine.
GeneratedBindings(doc, t) ==
  LET bs == BindingsOf(HooksUnder(doc, t))
  IN {i \in 1..Len(bs) :
        bs[i] = Binding("command", GeneratedCommand(getClaudeHooksPath(machine), t))}

\* C24: merging the generated configuration a second time changes nothing,
\* so every later run of init writes the document the first run wrote, and
\* every document init wrote holds exactly one generated binding per event
\* type, on every machine.
C24_InitIdempotent ==
  /\ \A k \in 2..Len(written) :
       /\ written[k] = smartMergeSettings(written[k - 1], Generated)
       /\ written[k] = written[k - 1]
  /\ \A k \in 1..Len(written) : \A t \in EventTypes :
       Cardinality(GeneratedBindings(written[k], t)) = 1

====
